---- MODULE Spec2Model ----
(***************************************************************************)
(* GPUSPH shared simulation state (src/src/GlobalData.h) and the typed     *)
(* buffer container (src/src/buffer.h) as a state machine.                 *)
(*                                                                         *)
(* Every operation is a call: it is taken from the idle position           *)
(* (op.name = "idle"), records its arguments and its outcome in op, and    *)
(* Return brings the caller back to the idle position.                     *)
(***************************************************************************)
EXTENDS Integers, Sequences, FiniteSets, TLC

VARIABLES
    currentRead,    \* current<Q>Read  of GlobalData, one per double-buffered quantity
    currentWrite,   \* current<Q>Write of GlobalData
    quit_request,   \* GlobalData::quit_request
    keep_going,     \* GlobalData::keep_going
    nextCommand,    \* GlobalData::nextCommand
    devices,        \* GlobalData::devices
    mpi_nodes,      \* GlobalData::mpi_nodes
    gridSize,       \* GlobalData::gridSize, <<x, y, z>>
    nGridCells,     \* GlobalData::nGridCells
    worldOrigin,    \* GlobalData::worldOrigin, <<x, y, z>> in fixed-point units
    cellSize,       \* GlobalData::cellSize, <<x, y, z>> in fixed-point units
    s_hDeviceMap,   \* GlobalData::s_hDeviceMap, a sequence of uchar (cell h is s_hDeviceMap[h+1])
    list,           \* the BufferList: a set of <<key, buffer>> entries of the std::map
    m_bufs,         \* GenericBuffer::m_bufs of every constructed buffer
    bufKey,         \* the Key of every constructed Buffer<Key>
    deleted,        \* how many times each buffer object has been deleted
    csv,            \* the lines written to the device-map file, in order
    op              \* the call in progress: its name, arguments and outcome

gdVars   == <<currentRead, currentWrite, quit_request, keep_going, nextCommand>>
gridVars == <<devices, mpi_nodes, gridSize, nGridCells, worldOrigin, cellSize, s_hDeviceMap>>
bufVars  == <<list, m_bufs, bufKey, deleted>>
ioVars   == <<csv>>
vars     == <<gdVars, gridVars, bufVars, ioVars, op>>

--------------------------------------------------------------------------
(* Bounds of the model *)

\* swapDeviceBuffers is called with every flag set of at most this many flags
\* (and with the two named sets BUFFERS_POS_VEL_INFO and BUFFERS_ALL_DBL)
MaxSwapFlags == 2

\* the grid has 1..MaxGrid cells along each axis
MaxGrid == 4

\* calcGlobalDeviceIndex: the grid has 1..MaxDevGrid cells along each axis,
\* there are 1..MaxDevices devices per node and 0..MaxNodes MPI nodes
MaxDevGrid == 2
MaxDevices == 2
MaxNodes == 2

\* at most MaxBuffers Buffer objects are constructed; array indices are drawn
\* from 0..MaxIdx, element offsets from 0..MaxOffset, element counts from
\* 0..MaxElems
MaxBuffers == 2
MaxIdx == 2
MaxOffset == 1
MaxElems == 2

--------------------------------------------------------------------------
(* The position of the caller *)

Idle == [name |-> "idle"]

\* the process was killed inside the call in progress
Crashed == "fault" \in DOMAIN op /\ op.fault

\* the call returns to its caller
Return ==
    /\ op.name # "idle"
    /\ ~Crashed
    /\ op' = Idle
    /\ UNCHANGED <<gdVars, gridVars, ioVars, bufVars>>

--------------------------------------------------------------------------
(* GlobalData: double-buffer indices and the stop request *)

BUFFER_POS           == "BUFFER_POS"
BUFFER_VEL           == "BUFFER_VEL"
BUFFER_INFO          == "BUFFER_INFO"
BUFFER_BOUNDELEMENTS == "BUFFER_BOUNDELEMENTS"
BUFFER_GRADGAMMA     == "BUFFER_GRADGAMMA"
BUFFER_VERTICES      == "BUFFER_VERTICES"
BUFFER_PRESSURE      == "BUFFER_PRESSURE"
BUFFER_TKE           == "BUFFER_TKE"
BUFFER_EPSILON       == "BUFFER_EPSILON"
BUFFER_TURBVISC      == "BUFFER_TURBVISC"
BUFFER_STRAIN_RATE   == "BUFFER_STRAIN_RATE"

\* a flag word is modelled as the set of the flags set in it: a | b is the
\* union, and (buffers & f) is f \in buffers
BUFFERS_POS_VEL_INFO == {BUFFER_POS, BUFFER_VEL, BUFFER_INFO}

BUFFERS_ALL_DBL ==
    {BUFFER_POS, BUFFER_VEL, BUFFER_INFO,
     BUFFER_BOUNDELEMENTS, BUFFER_GRADGAMMA, BUFFER_VERTICES,
     BUFFER_PRESSURE, BUFFER_TKE, BUFFER_EPSILON,
     BUFFER_TURBVISC, BUFFER_STRAIN_RATE}

\* The constructor's initializer list names none of the 22 index fields: a
\* freshly constructed GlobalData holds whatever its storage held.  The
\* values stand for the three kinds of word an index can hold: 0, 1, and a
\* word that is neither.
UninitValues == {0, 1, 2}

\* The storage before construction.  The model draws one arbitrary
\* (read, write) pair for the quantities swapDeviceBuffers exchanges and one
\* for the quantities no operation writes.
UninitIndices ==
    { [read  |-> [q \in BUFFERS_ALL_DBL |->
                    IF q \in BUFFERS_POS_VEL_INFO THEN a[1] ELSE b[1]],
       write |-> [q \in BUFFERS_ALL_DBL |->
                    IF q \in BUFFERS_POS_VEL_INFO THEN a[2] ELSE b[2]]] :
      a \in UninitValues \X UninitValues, b \in UninitValues \X UninitValues }

\* GlobalData(): quit_request(false)
quit_request_init_bad == TRUE
quit_request_init == FALSE

\* GlobalData(): keep_going(true)
keep_going_init == TRUE

\* GlobalData(): nextCommand(IDLE)
nextCommand_init == "IDLE"

\* GlobalData(): devices(0), mpi_nodes(0), nGridCells(0), s_hDeviceMap(NULL);
\* gridSize, worldOrigin and cellSize are set when the problem is initialized
\* and play no part before that
GridUnset ==
    /\ devices = 0
    /\ mpi_nodes = 0
    /\ nGridCells = 0
    /\ gridSize = <<0, 0, 0>>
    /\ worldOrigin = <<0, 0, 0>>
    /\ cellSize = <<0, 0, 0>>
    /\ s_hDeviceMap = <<>>

\* no buffer has been constructed, the BufferList is empty
BufEmpty ==
    /\ list = {}
    /\ m_bufs = <<>>
    /\ bufKey = <<>>
    /\ deleted = <<>>

\* no device-map file has been written
NoFile == csv = <<>>

\* the state after GlobalData::GlobalData()
Init ==
    /\ \E u \in UninitIndices :
          /\ currentRead = u.read
          /\ currentWrite = u.write
    /\ quit_request = quit_request_init
    /\ keep_going = keep_going_init
    /\ nextCommand = nextCommand_init
    /\ GridUnset
    /\ BufEmpty
    /\ NoFile
    /\ op = Idle

\* the flag sets swapDeviceBuffers is called with
SwapArgs ==
    {S \in SUBSET BUFFERS_ALL_DBL : Cardinality(S) <= MaxSwapFlags}
        \cup {BUFFERS_POS_VEL_INFO, BUFFERS_ALL_DBL}

\* std::swap(current<q>Read, current<q>Write) if (buffers & q)
SwapIf(buffers, q, f, g) == IF q \in buffers THEN g[q] ELSE f[q]

\* the quantities swapDeviceBuffers tests the flag of
SwappedQuantities == {BUFFER_POS, BUFFER_VEL, BUFFER_INFO}

swapDeviceBuffers(buffers) ==
    /\ op.name = "idle"
    /\ currentRead' = [q \in BUFFERS_ALL_DBL |->
          IF q \in SwappedQuantities
          THEN SwapIf(buffers, q, currentRead, currentWrite)
          ELSE currentRead[q]]
    /\ currentWrite' = [q \in BUFFERS_ALL_DBL |->
          IF q \in SwappedQuantities
          THEN SwapIf(buffers, q, currentWrite, currentRead)
          ELSE currentWrite[q]]
    /\ op' = [name |-> "swapDeviceBuffers", buffers |-> buffers,
              read |-> currentRead, write |-> currentWrite]
    /\ UNCHANGED <<quit_request, keep_going, nextCommand, gridVars, ioVars, bufVars>>

\* the signal handler reaches the GlobalData through gdata_static_pointer and
\* requests the stop; it runs at any point, also in the middle of a call
SignalHandler ==
    /\ quit_request' = TRUE
    /\ UNCHANGED <<currentRead, currentWrite, keep_going, nextCommand, gridVars, ioVars, bufVars, op>>

Next ==
    \/ \E buffers \in SwapArgs : swapDeviceBuffers(buffers)
    \/ SignalHandler
    \/ Return

Spec == Init /\ [][Next]_vars

--------------------------------------------------------------------------
(* Claims on the double-buffer indices and the stop request *)

\* C1 (as claimed): outside a call, every double-buffered quantity has a read
\* index and a write index that are each 0 or 1 and differ from each other.
C1_ReadDiffersFromWrite ==
    op.name = "idle" =>
        \A q \in BUFFERS_ALL_DBL :
            /\ currentRead[q] \in {0, 1}
            /\ currentWrite[q] \in {0, 1}
            /\ currentRead[q] # currentWrite[q]

\* C2 (as claimed): swapDeviceBuffers(buffers) exchanges the read and write
\* index of exactly the quantities flagged in buffers, and leaves the indices
\* of every other quantity as they were before the call.
C2_SwapsExactlyFlagged ==
    op.name = "swapDeviceBuffers" =>
        \A q \in BUFFERS_ALL_DBL :
            IF q \in op.buffers
            THEN currentRead[q] = op.write[q] /\ currentWrite[q] = op.read[q]
            ELSE currentRead[q] = op.read[q] /\ currentWrite[q] = op.write[q]

--------------------------------------------------------------------------
(* GlobalData: spatial grid indexing *)

\* int and uint are 32 bits wide.  Every grid of the model has fewer than 2^31
\* cells, so no unsigned product or sum of the functions below wraps, every
\* unsigned value converts to the same int, and the arithmetic is written
\* without the wrap.
INT_MAX == (2^30 - 1) + 2^30
INT_MIN == (-INT_MAX) - 1

\* max(0, gridPos.x): both arguments int
max_int(a, b) == IF a > b THEN a ELSE b
\* min(int, gridSize.x-1): the second argument is unsigned, so the first is
\* converted to unsigned; a negative int converts to a value above INT_MAX
min_int_uint(a, b) == IF a < 0 THEN b ELSE IF a < b THEN a ELSE b

\* the linearization both overloads of calcGridHashHost return
Linearize(x, y, z) ==
    ((z * gridSize[2]) * gridSize[1]) + (y * gridSize[1]) + x

\* uint calcGridHashHost(int3 gridPos)
calcGridHashHost_int3(gridPos) ==
    LET x == min_int_uint(max_int(0, gridPos[1]), gridSize[1] - 1)
        y == min_int_uint(max_int(0, gridPos[2]), gridSize[2] - 1)
        z == min_int_uint(max_int(0, gridPos[3]), gridSize[3] - 1)
    IN  Linearize(x, y, z)

\* a slip in the clamp: the upper limit is gridSize instead of gridSize-1
calcGridHashHost_noMinusOne(cellX, cellY, cellZ) ==
    LET trimmedX == min_int_uint(max_int(0, cellX), gridSize[1])
        trimmedY == min_int_uint(max_int(0, cellY), gridSize[2])
        trimmedZ == min_int_uint(max_int(0, cellZ), gridSize[3])
    IN  Linearize(trimmedX, trimmedY, trimmedZ)

\* uint calcGridHashHost(int cellX, int cellY, int cellZ)
calcGridHashHost(cellX, cellY, cellZ) ==
    LET trimmedX == min_int_uint(max_int(0, cellX), gridSize[1] - 1)
        trimmedY == min_int_uint(max_int(0, cellY), gridSize[2] - 1)
        trimmedZ == min_int_uint(max_int(0, cellZ), gridSize[3] - 1)
    IN  Linearize(trimmedX, trimmedY, trimmedZ)

\* uint3 calcGridPosFromHash(uint particleHash)
calcGridPosFromHash(particleHash) ==
    LET z == particleHash \div (gridSize[1] * gridSize[2])
        y == (particleHash - z * gridSize[1] * gridSize[2]) \div gridSize[1]
        x == particleHash - y * gridSize[1] - z * gridSize[1] * gridSize[2]
    IN  <<x, y, z>>

\* a slip in the row division: by gridSize.y instead of gridSize.x
reverseGridHashHost_divY(cell_lin_idx) ==
    LET cz == cell_lin_idx \div (gridSize[2] * gridSize[1])
        cy == (cell_lin_idx - (cz * gridSize[2] * gridSize[1])) \div gridSize[2]
        cx == cell_lin_idx - (cz * gridSize[2] * gridSize[1]) - (cy * gridSize[1])
    IN  <<cx, cy, cz>>

\* int3 reverseGridHashHost(uint cell_lin_idx)
reverseGridHashHost(cell_lin_idx) ==
    LET cz == cell_lin_idx \div (gridSize[2] * gridSize[1])
        cy == (cell_lin_idx - (cz * gridSize[2] * gridSize[1])) \div gridSize[1]
        cx == cell_lin_idx - (cz * gridSize[2] * gridSize[1]) - (cy * gridSize[1])
    IN  <<cx, cy, cz>>

\* the cell coordinates the hash functions are called with: the extremes of
\* int, a negative one, every coordinate of the grid, and coordinates beyond it
CellCoords == {INT_MIN, -1} \cup (0 .. MaxGrid) \cup {10, INT_MAX}

\* the hashes the reverse functions are called with: every cell of the grid
\* and the first one beyond it
Hashes == 0 .. nGridCells

\* the double-buffer indices and the stop request play no part in the grid and
\* buffer operations: zero-filled storage, no stop requested
GdQuiet ==
    /\ currentRead = [q \in BUFFERS_ALL_DBL |-> 0]
    /\ currentWrite = [q \in BUFFERS_ALL_DBL |-> 0]
    /\ quit_request = quit_request_init
    /\ keep_going = keep_going_init
    /\ nextCommand = nextCommand_init

\* the state once the problem set the grid: every grid of 1..MaxGrid cells
\* per axis, nGridCells the number of its cells; single device, single node
InitGrid ==
    /\ GdQuiet
    /\ BufEmpty
    /\ NoFile
    /\ gridSize \in (1 .. MaxGrid) \X (1 .. MaxGrid) \X (1 .. MaxGrid)
    /\ nGridCells = gridSize[1] * gridSize[2] * gridSize[3]
    /\ worldOrigin = <<0, 0, 0>>
    /\ cellSize = <<1, 1, 1>>
    /\ devices = 1
    /\ mpi_nodes = 1
    /\ s_hDeviceMap = <<>>
    /\ op = Idle

Call_calcGridHashHost_int3(gridPos) ==
    /\ op.name = "idle"
    /\ op' = [name |-> "calcGridHashHost_int3", args |-> gridPos,
              result |-> calcGridHashHost_int3(gridPos)]
    /\ UNCHANGED <<gdVars, gridVars, ioVars, bufVars>>

Call_calcGridHashHost(cellX, cellY, cellZ) ==
    /\ op.name = "idle"
    /\ op' = [name |-> "calcGridHashHost", args |-> <<cellX, cellY, cellZ>>,
              result |-> calcGridHashHost(cellX, cellY, cellZ)]
    /\ UNCHANGED <<gdVars, gridVars, ioVars, bufVars>>

Call_calcGridPosFromHash(particleHash) ==
    /\ op.name = "idle"
    /\ op' = [name |-> "calcGridPosFromHash", args |-> particleHash,
              result |-> calcGridPosFromHash(particleHash)]
    /\ UNCHANGED <<gdVars, gridVars, ioVars, bufVars>>

Call_reverseGridHashHost(cell_lin_idx) ==
    /\ op.name = "idle"
    /\ op' = [name |-> "reverseGridHashHost", args |-> cell_lin_idx,
              result |-> reverseGridHashHost(cell_lin_idx)]
    /\ UNCHANGED <<gdVars, gridVars, ioVars, bufVars>>

NextGrid ==
    \/ \E gridPos \in CellCoords \X CellCoords \X CellCoords :
          Call_calcGridHashHost_int3(gridPos)
    \/ \E x \in CellCoords, y \in CellCoords, z \in CellCoords :
          Call_calcGridHashHost(x, y, z)
    \/ \E h \in Hashes : Call_calcGridPosFromHash(h)
    \/ \E h \in Hashes : Call_reverseGridHashHost(h)
    \/ Return

SpecGrid == InitGrid /\ [][NextGrid]_vars

--------------------------------------------------------------------------
(* Claims on the grid indexing *)

\* a coordinate clamped into [0, n-1]
Clamped(v, n) == IF v < 0 THEN 0 ELSE IF v > n - 1 THEN n - 1 ELSE v

IsHashCall == op.name \in {"calcGridHashHost", "calcGridHashHost_int3"}

InGrid(c) ==
    /\ 0 <= c[1] /\ c[1] < gridSize[1]
    /\ 0 <= c[2] /\ c[2] < gridSize[2]
    /\ 0 <= c[3] /\ c[3] < gridSize[3]

\* C3: for every cell coordinate, negative or beyond the grid included, both
\* overloads of calcGridHashHost return ((z'*gridSize.y)+y')*gridSize.x + x'
\* with each coordinate clamped into [0, gridSize.axis-1], a value in
\* [0, nGridCells).
C3_HashIsClampedLinearization ==
    IsHashCall =>
        /\ op.result =
              ((Clamped(op.args[3], gridSize[3]) * gridSize[2])
                  + Clamped(op.args[2], gridSize[2])) * gridSize[1]
              + Clamped(op.args[1], gridSize[1])
        /\ 0 <= op.result
        /\ op.result < nGridCells

\* C3 witness: on the grid (4,4,4), cell (10,0,0) hashed to 3
C3_Witness ==
    /\ gridSize = <<4, 4, 4>>
    /\ op.name = "calcGridHashHost"
    /\ op.args = <<10, 0, 0>>
    /\ op.result = 3

\* C4: on the grid, reverseGridHashHost undoes calcGridHashHost, calcGridHashHost
\* undoes reverseGridHashHost on every hash below nGridCells, and
\* calcGridPosFromHash returns the coordinates reverseGridHashHost returns.
C4_HashRoundTrip ==
    /\ (IsHashCall /\ InGrid(op.args)) =>
          reverseGridHashHost(op.result) = op.args
    /\ (op.name = "reverseGridHashHost" /\ op.args < nGridCells) =>
          /\ InGrid(op.result)
          /\ calcGridHashHost(op.result[1], op.result[2], op.result[3]) = op.args
          /\ calcGridHashHost_int3(op.result) = op.args
    /\ (op.name = "calcGridPosFromHash" /\ op.args < nGridCells) =>
          op.result = reverseGridHashHost(op.args)

\* C4 witness: on the grid (2,3,4), the last hash 23 reversed to cell (1,2,3)
C4_Witness ==
    /\ gridSize = <<2, 3, 4>>
    /\ op.name = "reverseGridHashHost"
    /\ op.args = 23
    /\ op.result = <<1, 2, 3>>

--------------------------------------------------------------------------
(* GlobalData: the device owning a position *)

\* Lengths (positions, worldOrigin, cellSize) are whole multiples of one
\* length unit, so that the division and floor() of calcGridPosHost are the
\* integer floor division; the rounding of float is not modelled.
\* int3 calcGridPosHost(float px, float py, float pz)
calcGridPosHost(px, py, pz) ==
    << (px - worldOrigin[1]) \div cellSize[1],
       (py - worldOrigin[2]) \div cellSize[2],
       (pz - worldOrigin[3]) \div cellSize[3] >>

\* uchar calcGlobalDeviceIndex(float4 pos): the value returned, whether
\* s_hDeviceMap was read, and the index it was read at
calcGlobalDeviceIndex(pos) ==
    IF devices = 1 /\ mpi_nodes = 1
    THEN [value |-> 0, readMap |-> FALSE, index |-> 0]
    ELSE LET cellCoords == calcGridPosHost(pos[1], pos[2], pos[3])
             linearizedCellIdx == calcGridHashHost_int3(cellCoords)
         IN  [value |-> s_hDeviceMap[linearizedCellIdx + 1], readMap |-> TRUE,
              index |-> linearizedCellIdx]

\* the number of devices of the run; mpi_nodes is 0 while the network
\* manager is not initialized
TotDevices == devices * (IF mpi_nodes = 0 THEN 1 ELSE mpi_nodes)

\* the device maps of the model: consecutive runs of k cells go to the same
\* device, round robin over the devices (k = 1: cell by cell, k = gridSize.x:
\* row by row)
DeviceMaps ==
    { [h \in 1 .. nGridCells |-> ((h - 1) \div k) % TotDevices] :
        k \in {1, gridSize[1]} }

\* the component values of the positions: from one cell before the origin to
\* one cell beyond the far face
PosCoords == -3 .. (2 * MaxDevGrid + 1)

\* the state once the problem set the grid and the device map was filled
InitDev ==
    /\ GdQuiet
    /\ BufEmpty
    /\ NoFile
    /\ gridSize \in (1 .. MaxDevGrid) \X (1 .. MaxDevGrid) \X (1 .. MaxDevGrid)
    /\ nGridCells = gridSize[1] * gridSize[2] * gridSize[3]
    /\ worldOrigin \in {<<0, 0, 0>>, <<-1, -1, -1>>}
    /\ cellSize = <<2, 2, 2>>
    /\ devices \in 1 .. MaxDevices
    /\ mpi_nodes \in 0 .. MaxNodes
    /\ s_hDeviceMap \in DeviceMaps
    /\ op = Idle

Call_calcGlobalDeviceIndex(pos) ==
    /\ op.name = "idle"
    /\ LET r == calcGlobalDeviceIndex(pos)
       IN  op' = [name |-> "calcGlobalDeviceIndex", args |-> pos,
                  result |-> r.value, readMap |-> r.readMap, index |-> r.index]
    /\ UNCHANGED <<gdVars, gridVars, ioVars, bufVars>>

NextDev ==
    \/ \E pos \in PosCoords \X PosCoords \X PosCoords :
          Call_calcGlobalDeviceIndex(pos)
    \/ Return

SpecDev == InitDev /\ [][NextDev]_vars

\* the position lies strictly inside the domain
StrictlyInside(pos) ==
    \A a \in 1 .. 3 :
        /\ worldOrigin[a] < pos[a]
        /\ pos[a] < worldOrigin[a] + gridSize[a] * cellSize[a]

\* C5 (as claimed): calcGlobalDeviceIndex returns 0 without reading the device
\* map whenever devices == 1 and there is not more than one MPI node; in every
\* other configuration, for a position strictly inside the domain, it returns
\* s_hDeviceMap[calcGridHashHost(calcGridPosHost(pos))].
C5_DeviceIndex ==
    op.name = "calcGlobalDeviceIndex" =>
        IF devices = 1 /\ ~(mpi_nodes > 1)
        THEN op.result = 0 /\ ~op.readMap
        ELSE StrictlyInside(op.args) =>
                LET c == calcGridPosHost(op.args[1], op.args[2], op.args[3])
                IN  /\ op.readMap
                    /\ op.result = s_hDeviceMap[calcGridHashHost(c[1], c[2], c[3]) + 1]

--------------------------------------------------------------------------
(* buffer.h: Buffer<Key> and BufferList *)

BUFFER_FORCES == "BUFFER_FORCES"

\* the keys of the model: two double-buffered quantities of different element
\* types and a single-buffered one
BufferKeys == {BUFFER_POS, BUFFER_TKE, BUFFER_FORCES}

\* BufferTraits<Key>::nbufs
BufferTraits_nbufs(Key) == IF Key \in BUFFERS_ALL_DBL THEN 2 ELSE 1

\* sizeof(BufferTraits<Key>::type): float4 for positions and forces, float
\* for the turbulent kinetic energy
BufferTraits_sizeof(Key) == IF Key \in {BUFFER_POS, BUFFER_FORCES} THEN 16 ELSE 4

\* A pointer to array data: the array it points into (array i of buffer b is
\* <<b, i>>, counted from 1) and the element it points at.
NULL == [base |-> <<0, 0>>, off |-> 0]
\* the outcome of an access outside an object or to a destroyed object
FAULT == [base |-> <<-1, -1>>, off |-> 0]
ArrayPtr(b, i) == [base |-> <<b, i>>, off |-> 0]

\* pointer + offset
PtrAdd(ptr, offset) == [base |-> ptr.base, off |-> ptr.off + offset]

\* the buffer objects constructed so far, and those not destroyed
Buffers == 1 .. Len(bufKey)
LiveBuffers == {b \in Buffers : deleted[b] = 0}

\* m_bufs[idx] of buffer b; the member of a destroyed object cannot be read
Bufs(b, idx) ==
    IF deleted[b] > 0 \/ idx >= Len(m_bufs[b]) THEN FAULT ELSE m_bufs[b][idx + 1]

\* GenericBuffer::get_array_count
get_array_count(b) == BufferTraits_nbufs(bufKey[b])

\* GenericBuffer::get_element_size
get_element_size(b) == BufferTraits_sizeof(bufKey[b])

\* GenericBuffer::get_buffer(uint idx)
get_buffer(b, idx) ==
    IF idx >= get_array_count(b) THEN NULL ELSE Bufs(b, idx)

\* a slip: the test of m_bufs[idx] against NULL is missing
get_offset_buffer_noNullTest(b, idx, offset) ==
    IF idx >= get_array_count(b) THEN NULL
    ELSE PtrAdd(Bufs(b, idx), offset)

\* GenericBuffer::get_offset_buffer(uint idx, size_t offset)
get_offset_buffer(b, idx, offset) ==
    IF idx >= get_array_count(b) \/ Bufs(b, idx) = NULL THEN NULL
    ELSE PtrAdd(Bufs(b, idx), offset)

\* a slip: alloc allocates the arrays and returns their size, as an
\* allocating subclass would
alloc_allocates(b, elems) ==
    [err |-> "none",
     result |-> elems * get_element_size(b) * get_array_count(b),
     bufs |-> [i \in 1 .. get_array_count(b) |-> ArrayPtr(b, i)]]

\* AbstractBuffer::alloc(size_t elems), which neither GenericBuffer nor
\* Buffer<Key> overrides: it throws, nothing is returned or allocated
AbstractBuffer_alloc(b, elems) ==
    [err |-> "runtime_error", result |-> 0, bufs |-> m_bufs[b]]

\* BufferList::find(Key): the entries under Key
find(Key) == {e \in list : e[1] = Key}

\* BufferList::operator[](Key): the buffer under Key, or 0 for the null pointer
BufferList_at(Key) ==
    IF find(Key) # {} THEN (CHOOSE e \in find(Key) : TRUE)[2] ELSE 0

\* baseclass::operator[](Key) = buf: the entry under Key is replaced or added
map_assign(Key, buf) == {e \in list : e[1] # Key} \cup {<<Key, buf>>}

\* BufferList::getBufferData<Key>(uint num)
getBufferData(Key, num) ==
    IF find(Key) # {} THEN get_buffer(BufferList_at(Key), num) ELSE NULL

\* the state of the buffers before any is constructed
InitBuf ==
    /\ GdQuiet
    /\ GridUnset
    /\ BufEmpty
    /\ NoFile
    /\ op = Idle

\* new Buffer<Key>(): GenericBuffer's constructor sets every array to NULL
NewBuffer(Key) ==
    /\ op.name = "idle"
    /\ Len(bufKey) < MaxBuffers
    /\ bufKey' = Append(bufKey, Key)
    /\ m_bufs' = Append(m_bufs, [i \in 1 .. BufferTraits_nbufs(Key) |-> NULL])
    /\ deleted' = Append(deleted, 0)
    /\ op' = [name |-> "new Buffer", key |-> Key, buf |-> Len(bufKey) + 1]
    /\ UNCHANGED <<list, gdVars, gridVars, ioVars>>

\* get_raw_ptr()[i-1] = <newly allocated array>: how the arrays of a buffer
\* get allocated
SetRawPtr(b, i) ==
    /\ op.name = "idle"
    /\ b \in LiveBuffers
    /\ i \in 1 .. get_array_count(b)
    /\ m_bufs[b][i] = NULL
    /\ m_bufs' = [m_bufs EXCEPT ![b][i] = ArrayPtr(b, i)]
    /\ op' = [name |-> "get_raw_ptr", buf |-> b, idx |-> i - 1]
    /\ UNCHANGED <<list, bufKey, deleted, gdVars, gridVars, ioVars>>

\* a slip: no test for a key that is already there
Insert_noTest(buf) ==
    /\ op.name = "idle"
    /\ buf \in LiveBuffers
    /\ list' = map_assign(bufKey[buf], buf)
    /\ op' = [name |-> "operator<<", key |-> bufKey[buf], buf |-> buf,
              err |-> "none", before |-> list]
    /\ UNCHANGED <<m_bufs, bufKey, deleted, gdVars, gridVars, ioVars>>

\* BufferList::operator<<(Buffer<Key> *buf)
Insert(buf) ==
    /\ op.name = "idle"
    /\ buf \in LiveBuffers
    /\ IF find(bufKey[buf]) # {}
       THEN /\ list' = list
            /\ op' = [name |-> "operator<<", key |-> bufKey[buf], buf |-> buf,
                      err |-> "runtime_error", before |-> list]
       ELSE /\ list' = map_assign(bufKey[buf], buf)
            /\ op' = [name |-> "operator<<", key |-> bufKey[buf], buf |-> buf,
                      err |-> "none", before |-> list]
    /\ UNCHANGED <<m_bufs, bufKey, deleted, gdVars, gridVars, ioVars>>

\* delete buf->second for every entry: the object is destroyed (once more)
DeleteAll(entries) ==
    [b \in Buffers |->
        IF \E e \in entries : e[2] = b
        THEN (IF deleted[b] >= 2 THEN 2 ELSE deleted[b] + 1)
        ELSE deleted[b]]

\* a slip: the entries are deleted but baseclass::clear() is not called
clear_keepsEntries ==
    /\ op.name = "idle"
    /\ deleted' = DeleteAll(list)
    /\ m_bufs' = [b \in Buffers |->
                    IF \E e \in list : e[2] = b THEN <<>> ELSE m_bufs[b]]
    /\ list' = list
    /\ op' = [name |-> "clear", before |-> list, deletedBefore |-> deleted]
    /\ UNCHANGED <<bufKey, gdVars, gridVars, ioVars>>

\* BufferList::clear()
clear ==
    /\ op.name = "idle"
    /\ deleted' = DeleteAll(list)
    /\ m_bufs' = [b \in Buffers |->
                    IF \E e \in list : e[2] = b THEN <<>> ELSE m_bufs[b]]
    /\ list' = {}
    /\ op' = [name |-> "clear", before |-> list, deletedBefore |-> deleted]
    /\ UNCHANGED <<bufKey, gdVars, gridVars, ioVars>>

Call_getBufferData(Key, num) ==
    /\ op.name = "idle"
    /\ op' = [name |-> "getBufferData", key |-> Key, idx |-> num,
              result |-> getBufferData(Key, num)]
    /\ UNCHANGED <<gdVars, gridVars, ioVars, bufVars>>

\* list[Key]->get_buffer(idx), for a key of the list
Call_get_buffer(Key, idx) ==
    /\ op.name = "idle"
    /\ find(Key) # {}
    /\ op' = [name |-> "get_buffer", key |-> Key, idx |-> idx,
              result |-> get_buffer(BufferList_at(Key), idx)]
    /\ UNCHANGED <<gdVars, gridVars, ioVars, bufVars>>

\* list[Key]->get_offset_buffer(idx, offset), for a key of the list
Call_get_offset_buffer(Key, idx, offset) ==
    /\ op.name = "idle"
    /\ find(Key) # {}
    /\ op' = [name |-> "get_offset_buffer", key |-> Key, idx |-> idx,
              offset |-> offset,
              result |-> get_offset_buffer(BufferList_at(Key), idx, offset)]
    /\ UNCHANGED <<gdVars, gridVars, ioVars, bufVars>>

\* buf->alloc(elems) on a Buffer<Key>
Call_alloc(b, elems) ==
    /\ op.name = "idle"
    /\ b \in LiveBuffers
    /\ LET r == AbstractBuffer_alloc(b, elems)
       IN  /\ m_bufs' = [m_bufs EXCEPT ![b] = r.bufs]
           /\ op' = [name |-> "alloc", buf |-> b, elems |-> elems,
                     err |-> r.err, result |-> r.result, before |-> m_bufs]
    /\ UNCHANGED <<list, bufKey, deleted, gdVars, gridVars, ioVars>>

NextBuf ==
    \/ \E Key \in BufferKeys : NewBuffer(Key)
    \/ \E b \in Buffers, i \in 1 .. 2 : SetRawPtr(b, i)
    \/ \E b \in Buffers : Insert(b)
    \/ clear
    \/ \E Key \in BufferKeys, num \in 0 .. MaxIdx : Call_getBufferData(Key, num)
    \/ \E Key \in BufferKeys, idx \in 0 .. MaxIdx : Call_get_buffer(Key, idx)
    \/ \E Key \in BufferKeys, idx \in 0 .. MaxIdx, offset \in 0 .. MaxOffset :
          Call_get_offset_buffer(Key, idx, offset)
    \/ \E b \in Buffers, elems \in 0 .. MaxElems : Call_alloc(b, elems)
    \/ Return

SpecBuf == InitBuf /\ [][NextBuf]_vars

--------------------------------------------------------------------------
(* Claims on Buffer<Key> and BufferList *)

\* C6: an insert under a key that is already present fails with an error and
\* leaves the list as it was, so that the lookup still returns the buffer
\* stored before; the list never holds two buffers under one key.
C6_DuplicateInsertFails ==
    /\ \A e1 \in list, e2 \in list : e1[1] = e2[1] => e1 = e2
    /\ (op.name = "operator<<" /\ (\E e \in op.before : e[1] = op.key)) =>
          /\ op.err = "runtime_error"
          /\ list = op.before
          /\ <<op.key, BufferList_at(op.key)>> \in op.before

\* C6 witness: a second buffer of a key was refused, the first one is still
\* the one the list holds
C6_Witness ==
    /\ op.name = "operator<<"
    /\ op.err = "runtime_error"
    /\ BufferList_at(op.key) # 0
    /\ BufferList_at(op.key) # op.buf

\* C7: clear() destroys every buffer of the list exactly once and empties the
\* list; no buffer is ever destroyed twice and no destroyed buffer stays in
\* the list, so that a second clear() destroys nothing.
C7_ClearDestroysOnce ==
    /\ \A b \in Buffers : deleted[b] <= 1
    /\ \A e \in list : deleted[e[2]] = 0
    /\ op.name = "clear" =>
          /\ list = {}
          /\ \A b \in Buffers :
                deleted[b] = op.deletedBefore[b]
                    + (IF \E e \in op.before : e[2] = b THEN 1 ELSE 0)

\* C7 witness: clear() ran on a list already emptied by a clear() that
\* destroyed a buffer
C7_Witness ==
    /\ op.name = "clear"
    /\ op.before = {}
    /\ \E b \in Buffers : deleted[b] = 1
    /\ deleted = op.deletedBefore

\* the array idx of the buffer under Key is there: the key is in the list,
\* idx is below the array count, and the array has been allocated
Present(Key, idx) ==
    /\ find(Key) # {}
    /\ idx < BufferTraits_nbufs(Key)
    /\ m_bufs[BufferList_at(Key)][idx + 1] # NULL

\* C8: get_buffer and getBufferData return NULL when the key is not in the
\* list, idx is not below the array count or the array is not allocated, and
\* the array otherwise; get_offset_buffer returns NULL in the same cases and
\* otherwise the array advanced by offset elements.  None of them faults.
C8_AbsentIsNull ==
    /\ op.name \in {"getBufferData", "get_buffer"} =>
          op.result = IF Present(op.key, op.idx)
                      THEN ArrayPtr(BufferList_at(op.key), op.idx + 1)
                      ELSE NULL
    /\ op.name = "get_offset_buffer" =>
          op.result = IF Present(op.key, op.idx)
                      THEN [base |-> <<BufferList_at(op.key), op.idx + 1>>,
                            off |-> op.offset]
                      ELSE NULL

\* C8 witness: get_offset_buffer with a positive offset returned NULL for the
\* unallocated second array of a buffer whose first array is allocated
C8_Witness ==
    /\ op.name = "get_offset_buffer"
    /\ op.idx = 1
    /\ op.offset > 0
    /\ BufferTraits_nbufs(op.key) = 2
    /\ m_bufs[BufferList_at(op.key)][1] # NULL
    /\ m_bufs[BufferList_at(op.key)][2] = NULL
    /\ op.result = NULL

--------------------------------------------------------------------------
(* GlobalData: the command token and the coordinator *)

\* enum CommandType
CommandType ==
    {"IDLE", "CALCHASH", "SORT", "CROP", "REORDER", "BUILDNEIBS", "FORCES",
     "EULER", "DUMP", "DUMP_CELLS", "UPDATE_SEGMENTS", "APPEND_EXTERNAL",
     "UPDATE_EXTERNAL", "MLS", "SHEPARD", "VORTICITY", "SURFACE_PARTICLES",
     "CALC_PROBES", "CALC_TESTPOINTS", "MF_INIT_GAMMA", "MF_UPDATE_GAMMA",
     "MF_UPDATE_POS", "MF_CALC_BOUND_CONDITIONS", "MF_UPDATE_BOUND_VALUES",
     "SPS", "MEAN_STRAIN", "REDUCE_BODIES_FORCES", "UPLOAD_MBDATA",
     "UPLOAD_GRAVITY", "UPLOAD_PLANES", "UPLOAD_OBJECTS_CG",
     "UPLOAD_OBJECTS_MATRICES", "QUIT"}

QUIT == "QUIT"

\* the state after GlobalData::GlobalData(), on zero-filled storage
InitCmd ==
    /\ GdQuiet
    /\ GridUnset
    /\ BufEmpty
    /\ NoFile
    /\ op = Idle

\* a slip: the coordinator dispatches without looking at the token or at
\* keep_going
issueCommand_afterQuit(type) ==
    /\ op.name = "idle"
    /\ type # QUIT
    /\ nextCommand' = type
    /\ op' = [name |-> "command", cmd |-> type, prev |-> nextCommand]
    /\ UNCHANGED <<currentRead, currentWrite, quit_request, keep_going,
                   gridVars, ioVars, bufVars>>

\* issueCommand(type): the coordinator sets the command token and releases
\* the workers; no worker is executing a previous command, the simulation is
\* going and has not quit.  The workers run until Return (the barrier).
issueCommand(type) ==
    /\ op.name = "idle"
    /\ keep_going
    /\ nextCommand # QUIT
    /\ type # QUIT
    /\ nextCommand' = type
    /\ op' = [name |-> "command", cmd |-> type, prev |-> nextCommand]
    /\ UNCHANGED <<currentRead, currentWrite, quit_request, keep_going,
                   gridVars, ioVars, bufVars>>

\* the coordinator polls the stop request at its safe point, after a command
\* has completed
pollStop ==
    /\ op.name = "idle"
    /\ keep_going
    /\ quit_request
    /\ keep_going' = FALSE
    /\ UNCHANGED <<currentRead, currentWrite, quit_request, nextCommand,
                   gridVars, ioVars, bufVars, op>>

\* the coordinator leaves its loop and issues QUIT, once, after the workers of
\* the last command have drained
issueQuit ==
    /\ op.name = "idle"
    /\ ~keep_going
    /\ nextCommand # QUIT
    /\ nextCommand' = QUIT
    /\ op' = [name |-> "command", cmd |-> QUIT, prev |-> nextCommand]
    /\ UNCHANGED <<currentRead, currentWrite, quit_request, keep_going,
                   gridVars, ioVars, bufVars>>

NextCmd ==
    \/ \E type \in CommandType : issueCommand(type)
    \/ pollStop
    \/ issueQuit
    \/ SignalHandler
    \/ Return

SpecCmd == InitCmd /\ [][NextCmd]_vars

\* C11: QUIT is issued only when no command is pending, and once the command
\* token is QUIT it stays QUIT and no further command is dispatched.
C11_QuitIsTerminal ==
    [][ /\ (nextCommand # QUIT /\ nextCommand' = QUIT) => op.name = "idle"
        /\ nextCommand = QUIT =>
              /\ nextCommand' = QUIT
              /\ ~(op.name = "idle" /\ op'.name = "command") ]_vars

\* C11 witness: QUIT was issued after the DUMP command had completed
C11_Witness ==
    /\ nextCommand = QUIT
    /\ op.name = "command"
    /\ op.cmd = QUIT
    /\ op.prev = "DUMP"

--------------------------------------------------------------------------
(* GlobalData: global device ids, the device map and its CSV dumps *)

\* 5 bits node + 3 bits device
DEVICE_BITS == 3
DEVICE_BITS_MASK == 2^DEVICE_BITS - 1

\* conversion of an int to uchar
ToUchar(n) == n % 2^8

\* uchar RANK(uchar globalDevId): globalDevId >> DEVICE_BITS
RANK(globalDevId) == ToUchar(globalDevId \div 2^DEVICE_BITS)

\* uchar DEVICE(uchar globalDevId): globalDevId & DEVICE_BITS_MASK
DEVICE(globalDevId) == ToUchar(globalDevId % (DEVICE_BITS_MASK + 1))

\* a slip: the rank is not shifted
GLOBAL_DEVICE_ID_noShift(nodeRank, localDevId) ==
    ToUchar(nodeRank + (localDevId % (DEVICE_BITS_MASK + 1)))

\* uchar GLOBAL_DEVICE_ID(uchar nodeRank, uchar localDevId):
\* (nodeRank << DEVICE_BITS) | (localDevId & DEVICE_BITS_MASK), computed in
\* int and converted to uchar.  The low DEVICE_BITS bits of the shifted rank
\* are zero, so the bitwise or is the sum.
GLOBAL_DEVICE_ID(nodeRank, localDevId) ==
    ToUchar((nodeRank * 2^DEVICE_BITS) + (localDevId % (DEVICE_BITS_MASK + 1)))

\* uchar GLOBAL_DEVICE_NUM(uchar globalDevId)
GLOBAL_DEVICE_NUM(globalDevId) ==
    ToUchar((devices * RANK(globalDevId)) + DEVICE(globalDevId))

\* void convertDeviceMap()
convertDeviceMap ==
    /\ op.name = "idle"
    /\ s_hDeviceMap' =
          [n \in 1 .. nGridCells |->
              LET rank == ToUchar(s_hDeviceMap[n] \div devices)
                  dev  == ToUchar(s_hDeviceMap[n] % devices)
              IN  GLOBAL_DEVICE_ID(rank, dev)]
    /\ op' = [name |-> "convertDeviceMap", before |-> s_hDeviceMap]
    /\ UNCHANGED <<gdVars, devices, mpi_nodes, gridSize, nGridCells,
                   worldOrigin, cellSize, ioVars, bufVars>>

\* the first line of the file
Header == [kind |-> "header", text |-> "X,Y,Z,LINEARIZED,VALUE"]

\* a slip: the linear index of the cell in the first z plane
csvRow_firstPlane(ix, iy, iz, values) ==
    LET cell_lin_idx == calcGridHashHost(ix, iy, 0)
    IN  [kind |-> "row", x |-> ix, y |-> iy, z |-> iz,
         linearized |-> cell_lin_idx, value |-> values[cell_lin_idx + 1]]

\* the body of the innermost loop: one "%u,%u,%u,%u,%u\n" line
csvRow(ix, iy, iz, values) ==
    LET cell_lin_idx == calcGridHashHost(ix, iy, iz)
    IN  [kind |-> "row", x |-> ix, y |-> iy, z |-> iz,
         linearized |-> cell_lin_idx, value |-> values[cell_lin_idx + 1]]

\* the three nested loops, ix outermost and iz innermost, from (ix, iy, iz) on
RECURSIVE csvLoops(_, _, _, _)
csvLoops(ix, iy, iz, values) ==
    IF ~(ix < gridSize[1]) THEN <<>>
    ELSE IF ~(iy < gridSize[2]) THEN csvLoops(ix + 1, 0, 0, values)
    ELSE IF ~(iz < gridSize[3]) THEN csvLoops(ix, iy + 1, 0, values)
    ELSE <<csvRow(ix, iy, iz, values)>> \o csvLoops(ix, iy, iz + 1, values)

\* what a successfully opened file holds at fclose
csvFile(values) == <<Header>> \o csvLoops(0, 0, 0, values)

\* the outcomes of fprintf on the null FILE* a failed fopen returns: the
\* behaviour is undefined; the process is killed, or the calls return
NullFileOutcomes == {"fault", "returned"}

\* void saveDeviceMapToFile(string prefix); fid_ok: fopen returned a file
saveDeviceMapToFile(prefix, fid_ok, ub) ==
    /\ op.name = "idle"
    /\ csv' = IF fid_ok THEN csvFile(s_hDeviceMap) ELSE csv
    /\ op' = [name |-> "saveDeviceMapToFile",
              fname |-> [prefix |-> prefix, rank |-> mpi_nodes > 1,
                         dev |-> FALSE],
              opened |-> fid_ok,
              fault |-> ~fid_ok /\ ub = "fault"]
    /\ UNCHANGED <<gdVars, gridVars, bufVars>>

\* compactDeviceMap[i] >> 30, for an entry kept as its top two bits (hi) and
\* its low 30 bits (lo)
CellType(entry) == entry.hi

\* the compact device maps of the model
CompactDeviceMaps ==
    { [h \in 1 .. nGridCells |-> [hi |-> (h + s) % 4, lo |-> h % 2]] :
        s \in {0, 1} }

\* void saveCompactDeviceMapToFile(string prefix, uint srcDev,
\*                                 uint *compactDeviceMap)
saveCompactDeviceMapToFile(prefix, srcDev, compactDeviceMap, fid_ok, ub) ==
    /\ op.name = "idle"
    /\ csv' = IF fid_ok
              THEN csvFile([h \in 1 .. nGridCells |->
                               CellType(compactDeviceMap[h])])
              ELSE csv
    /\ op' = [name |-> "saveCompactDeviceMapToFile",
              fname |-> [prefix |-> prefix, rank |-> FALSE,
                         dev |-> devices > 1],
              opened |-> fid_ok,
              fault |-> ~fid_ok /\ ub = "fault"]
    /\ UNCHANGED <<gdVars, gridVars, bufVars>>

\* the arguments of the id functions: every rank of 8 - DEVICE_BITS bits and
\* every device of DEVICE_BITS bits, and the first value that does not fit
Ranks == 0 .. 2^(8 - DEVICE_BITS)
LocalDevs == 0 .. 2^DEVICE_BITS

Call_GLOBAL_DEVICE_ID(nodeRank, localDevId) ==
    /\ op.name = "idle"
    /\ LET id == GLOBAL_DEVICE_ID(nodeRank, localDevId)
       IN  op' = [name |-> "GLOBAL_DEVICE_ID", nodeRank |-> nodeRank,
                  localDevId |-> localDevId, result |-> id,
                  rank |-> RANK(id), device |-> DEVICE(id)]
    /\ UNCHANGED <<gdVars, gridVars, ioVars, bufVars>>

Prefixes == {"", "map"}

\* the grid and the device map after domain decomposition
InitMap ==
    /\ GdQuiet
    /\ BufEmpty
    /\ NoFile
    /\ gridSize \in (1 .. MaxDevGrid) \X (1 .. MaxDevGrid) \X (1 .. MaxDevGrid)
    /\ nGridCells = gridSize[1] * gridSize[2] * gridSize[3]
    /\ worldOrigin = <<0, 0, 0>>
    /\ cellSize = <<2, 2, 2>>
    /\ devices \in 1 .. MaxDevices
    /\ mpi_nodes \in 0 .. MaxNodes
    /\ s_hDeviceMap \in DeviceMaps
    /\ op = Idle

NextMap ==
    \/ convertDeviceMap
    \/ \E prefix \in Prefixes, fid_ok \in BOOLEAN, ub \in NullFileOutcomes :
          saveDeviceMapToFile(prefix, fid_ok, ub)
    \/ \E prefix \in Prefixes, srcDev \in 0 .. (devices - 1),
          compactDeviceMap \in CompactDeviceMaps,
          fid_ok \in BOOLEAN, ub \in NullFileOutcomes :
          saveCompactDeviceMapToFile(prefix, srcDev, compactDeviceMap,
                                     fid_ok, ub)
    \/ Return

SpecMap == InitMap /\ [][NextMap]_vars

\* the device maps of a row of cells: round robin over the devices, from the
\* first or from the last device of the run
RowDeviceMaps ==
    { [h \in 1 .. nGridCells |-> (h - 1 + s) % TotDevices] :
        s \in {0, TotDevices - 1} }

\* a row of cells and its device map after domain decomposition
InitId ==
    /\ GdQuiet
    /\ BufEmpty
    /\ NoFile
    /\ gridSize \in { <<g, 1, 1>> : g \in 1 .. MaxDevGrid }
    /\ nGridCells = gridSize[1] * gridSize[2] * gridSize[3]
    /\ worldOrigin = <<0, 0, 0>>
    /\ cellSize = <<2, 2, 2>>
    /\ devices \in 1 .. MaxDevices
    /\ mpi_nodes \in 0 .. MaxNodes
    /\ s_hDeviceMap \in RowDeviceMaps
    /\ op = Idle

NextId ==
    \/ \E nodeRank \in Ranks, localDevId \in LocalDevs :
          Call_GLOBAL_DEVICE_ID(nodeRank, localDevId)
    \/ convertDeviceMap
    \/ Return

SpecId == InitId /\ [][NextId]_vars

\* the call in progress is one of the two dumps
IsSaveCall(o) ==
    o.name \in {"saveDeviceMapToFile", "saveCompactDeviceMapToFile"}

\* C12: after saveDeviceMapToFile has written its file, the file holds the
\* header line and then exactly nGridCells lines: every cell of the grid is
\* on one line, whose LINEARIZED is calcGridHashHost(x, y, z) and whose VALUE
\* is s_hDeviceMap at that index, and no linear index is on two lines.
C12_DeviceMapFile ==
    (op.name = "saveDeviceMapToFile" /\ op.opened) =>
        /\ Len(csv) = 1 + nGridCells
        /\ csv[1] = Header
        /\ \A i \in 2 .. Len(csv) :
              /\ csv[i].kind = "row"
              /\ csv[i].x \in 0 .. (gridSize[1] - 1)
              /\ csv[i].y \in 0 .. (gridSize[2] - 1)
              /\ csv[i].z \in 0 .. (gridSize[3] - 1)
              /\ csv[i].linearized =
                    calcGridHashHost(csv[i].x, csv[i].y, csv[i].z)
              /\ csv[i].value = s_hDeviceMap[csv[i].linearized + 1]
        /\ \A i, j \in 2 .. Len(csv) :
              i # j => csv[i].linearized # csv[j].linearized
        /\ \A h \in 0 .. (nGridCells - 1) :
              \E i \in 2 .. Len(csv) : csv[i].linearized = h

\* C12 witness: a grid of several cells in every direction, with a map of
\* more than one device, has been dumped
C12_Witness ==
    /\ op.name = "saveDeviceMapToFile"
    /\ op.opened
    /\ \A a \in 1 .. 3 : gridSize[a] > 1
    /\ Len(csv) = 1 + nGridCells
    /\ \E i, j \in 2 .. Len(csv) : csv[i].value # csv[j].value

\* C13: when the file cannot be opened, the two dumps do not fault, write
\* nothing, leave the GlobalData unchanged and return.
C13_UnopenedFileIsHarmless ==
    [][ (op.name = "idle" /\ IsSaveCall(op') /\ ~op'.opened) =>
           /\ ~op'.fault
           /\ UNCHANGED <<gdVars, gridVars, ioVars, bufVars>> ]_vars

\* C14: for a rank of 8 - DEVICE_BITS bits and a device of DEVICE_BITS bits,
\* RANK and DEVICE give back the two arguments of GLOBAL_DEVICE_ID; and
\* convertDeviceMap replaces every cell value v by
\* GLOBAL_DEVICE_ID(v / devices, v % devices), from which GLOBAL_DEVICE_NUM
\* gives back v when v / devices is a rank of 8 - DEVICE_BITS bits and
\* devices fit in DEVICE_BITS bits.
C14_GlobalDeviceIdRoundTrip ==
    /\ op.name = "GLOBAL_DEVICE_ID" =>
          ((op.nodeRank < 2^(8 - DEVICE_BITS) /\ op.localDevId < 2^DEVICE_BITS)
              => (op.rank = op.nodeRank /\ op.device = op.localDevId))
    /\ op.name = "convertDeviceMap" =>
          \A n \in 1 .. nGridCells :
             LET v == op.before[n]
             IN  /\ s_hDeviceMap[n] =
                       GLOBAL_DEVICE_ID(v \div devices, v % devices)
                 /\ (v \div devices < 2^(8 - DEVICE_BITS)
                        /\ devices <= 2^DEVICE_BITS)
                       => GLOBAL_DEVICE_NUM(s_hDeviceMap[n]) = v

\* C14 witness: a map that names a device of a node other than the first has
\* been converted, and the conversion changed it
C14_Witness ==
    /\ op.name = "convertDeviceMap"
    /\ devices > 1
    /\ \E n \in 1 .. nGridCells :
          /\ op.before[n] \div devices > 0
          /\ op.before[n] \div devices < 2^(8 - DEVICE_BITS)
          /\ s_hDeviceMap[n] # op.before[n]

--------------------------------------------------------------------------
(* GlobalData: addSeparators *)

\* the characters of the decimal digits
DigitChar == <<"0", "1", "2", "3", "4", "5", "6", "7", "8", "9">>

\* oss << n, for an integer n >= 0: its decimal digits
RECURSIVE Decimal(_)
Decimal(n) ==
    IF n < 10 THEN <<DigitChar[n + 1]>>
    ELSE Decimal(n \div 10) \o <<DigitChar[(n % 10) + 1]>>

\* the zeros written before a group below 100 when padding is needed
Padding(padding_needed, group) ==
    IF padding_needed
    THEN (IF group <= 99 THEN <<"0">> ELSE <<>>)
            \o (IF group <= 9 THEN <<"0">> ELSE <<>>)
    ELSE <<>>

\* the while loop of addSeparators, from the state (number, magnitude,
\* padding_needed, oss) on; the value is the state at the exit of the loop
RECURSIVE addSeparators_while(_, _, _, _)
addSeparators_while(number, magnitude, padding_needed, oss) ==
    IF ~(number >= 1000)
    THEN [number |-> number, padding_needed |-> padding_needed, oss |-> oss]
    ELSE IF number >= magnitude
         THEN LET div == number \div magnitude
                  mod == number % magnitude
              IN  addSeparators_while(mod, magnitude \div 1000, TRUE,
                     oss \o Padding(padding_needed, div) \o Decimal(div)
                         \o <<",">>)
         ELSE addSeparators_while(number, magnitude \div 1000,
                                  padding_needed, oss)

\* string addSeparators(long int number)
addSeparators(number) ==
    LET sign == IF number < 0 THEN <<"-">> ELSE <<>>
        abs  == IF number < 0 THEN number * (-1) ELSE number
        exit == addSeparators_while(abs, 10^9, FALSE, sign)
    IN  exit.oss \o Padding(exit.padding_needed, exit.number)
                 \o Decimal(exit.number)

\* the arguments of the model: every number of up to three groups of three
\* digits taken from SepGroups, a few above 10^9, and two negative ones
MaxSepGroup == 1
SepGroups == (0 .. MaxSepGroup) \cup {10, 99, 100, 999}
SepNumbers ==
    { (a * 10^6) + (b * 10^3) + c : a, b, c \in SepGroups }
       \cup {10^9, (2 * 10^9) + 5, INT_MAX, -1, -1234}

Call_addSeparators(number) ==
    /\ op.name = "idle"
    /\ op' = [name |-> "addSeparators", number |-> number,
              result |-> addSeparators(number)]
    /\ UNCHANGED <<gdVars, gridVars, ioVars, bufVars>>

NextSep ==
    \/ \E number \in SepNumbers : Call_addSeparators(number)
    \/ Return

SpecSep == InitCmd /\ [][NextSep]_vars

\* the string without its separators
RECURSIVE WithoutCommas(_)
WithoutCommas(str) ==
    IF str = <<>> THEN <<>>
    ELSE (IF Head(str) = "," THEN <<>> ELSE <<Head(str)>>)
            \o WithoutCommas(Tail(str))

\* the positions of the separators in the string
CommaPositions(str) == { i \in 1 .. Len(str) : str[i] = "," }

\* C15: for every non-negative number, addSeparators returns a string which
\* without its commas is the decimal representation of the number, and in
\* which every group after the first has exactly three digits.
C15_SeparatorsKeepDigits ==
    (op.name = "addSeparators" /\ op.number >= 0) =>
        /\ WithoutCommas(op.result) = Decimal(op.number)
        /\ \A i \in CommaPositions(op.result) :
              /\ i + 3 <= Len(op.result)
              /\ \A k \in 1 .. 3 : op.result[i + k] # ","
              /\ (i + 4 <= Len(op.result)) => op.result[i + 4] = ","

--------------------------------------------------------------------------
(* GlobalData.h: the topology macros, on the GlobalData gdata points to *)

MULTI_NODE    == mpi_nodes > 1
SINGLE_NODE   == ~MULTI_NODE
MULTI_GPU     == devices > 1
SINGLE_GPU    == devices > 1
MULTI_DEVICE  == MULTI_GPU \/ MULTI_NODE
SINGLE_DEVICE == ~MULTI_DEVICE

\* C16: SINGLE_GPU holds exactly when devices is 1 and MULTI_GPU exactly when
\* devices is above 1, never both; SINGLE_NODE is the negation of MULTI_NODE
\* and SINGLE_DEVICE the negation of MULTI_DEVICE.
C16_TopologyMacros ==
    devices >= 1 =>
        /\ SINGLE_GPU <=> (devices = 1)
        /\ MULTI_GPU <=> (devices > 1)
        /\ ~(SINGLE_GPU /\ MULTI_GPU)
        /\ SINGLE_NODE <=> ~MULTI_NODE
        /\ SINGLE_DEVICE <=> ~MULTI_DEVICE

====
